---- MODULE Spec2Model ----
(***************************************************************************)
(* Model of the dive-computer-deco engine: tissue kinetics                 *)
(* (src/src/tissue.rs), the analytical and bisection ceiling solvers       *)
(* (src/src/ceiling.rs), the no-decompression-limit loop (src/src/ndl.rs)  *)
(* and the dive simulator (src/src/simulate.rs).                           *)
(*                                                                         *)
(* Numbers.  The program computes in f32.  The model computes in fixed     *)
(* point and rounds after every operation, as f32 does:                    *)
(*   - pressures, gradient factors, Buehlmann coefficients, decay factors  *)
(*     and minutes are integers counting 1e-7 (SCALE units);               *)
(*   - depths and speeds count 1e-6 m (DM units): depth/10 bar is then the *)
(*     same integer in SCALE units;                                        *)
(*   - seconds count 1e-4 s (TS units);                                    *)
(*   - the depths of the bisection count 1/256 m (D256 units), in which    *)
(*     100 m halves ten times without remainder, as it does in f32.        *)
(* Every intermediate value stays below 2^31.                              *)
(***************************************************************************)
EXTENDS Integers, Sequences, FiniteSets, TLC

SCALE == 10^7
DM == 10^6
TS == 10^4
D256 == 2^8

Compartments == 0..15

Abs(x) == IF x < 0 THEN -x ELSE x
Min(x, y) == IF x <= y THEN x ELSE y
Max(x, y) == IF x >= y THEN x ELSE y

(***************************************************************************)
(* f32 multiplication and division on SCALE-valued operands.               *)
(***************************************************************************)
MulU(x, y) ==
    LET xh == x \div 10000
        xl == x % 10000
        yh == y \div 10000
        yl == y % 10000
    IN  xh * yh * 10 + ((xh * yl + xl * yh) + ((xl * yl) \div 10000) + 500) \div 1000

Sign(x) == IF x < 0 THEN -1 ELSE 1

FMul(x, y) == Sign(x) * Sign(y) * MulU(Abs(x), Abs(y))

RECURSIVE LDiv(_, _, _, _)
LDiv(q, r, y, k) ==
    IF k = 0 THEN q + (IF 2 * r >= y THEN 1 ELSE 0)
    ELSE LDiv(q * 10 + ((r * 10) \div y), (r * 10) % y, y, k - 1)

\* x / y for y > 0, seven decimal digits, rounded to nearest
FDiv(x, y) == Sign(x) * LDiv(Abs(x) \div y, Abs(x) % y, y, 7)

(***************************************************************************)
(* The ZH-L16C compartment table (crate::zh16c::ZhL16cGf).  Half-lives in  *)
(* 1/100 minute, coefficients in SCALE units.                              *)
(***************************************************************************)
N2_HALF_LIFE ==
    [i \in Compartments |->
        <<500, 800, 1250, 1850, 2700, 3830, 5430, 7700, 10900, 14600,
          18700, 23900, 30500, 39000, 49800, 63500>>[i + 1]]
HE_HALF_LIFE ==
    [i \in Compartments |->
        <<188, 302, 472, 699, 1021, 1448, 2053, 2911, 4120, 5519,
          7069, 9034, 11529, 14742, 18824, 24003>>[i + 1]]
N2_A ==
    [i \in Compartments |->
        1000 * <<11696, 10000, 8618, 7562, 6200, 5043, 4410, 4000, 3750, 3500,
                 3295, 3065, 2835, 2610, 2480, 2327>>[i + 1]]
N2_B ==
    [i \in Compartments |->
        1000 * <<5578, 6514, 7222, 7825, 8126, 8434, 8693, 8910, 9092, 9222,
                 9319, 9403, 9477, 9544, 9602, 9653>>[i + 1]]
HE_A ==
    [i \in Compartments |->
        1000 * <<16189, 13830, 11919, 10458, 9220, 8205, 7305, 6502, 5950, 5545,
                 5333, 5189, 5181, 5176, 5172, 5119>>[i + 1]]
HE_B ==
    [i \in Compartments |->
        1000 * <<4770, 5747, 6527, 7223, 7582, 7957, 8279, 8553, 8757, 8903,
                 8997, 9073, 9122, 9171, 9217, 9267>>[i + 1]]

(***************************************************************************)
(* src/src/lib.rs                                                          *)
(***************************************************************************)
FN2 == 7900000
FHE == 0
water_vapor_pressure == 627000

default_tissue_load == FMul(FN2, SCALE - water_vapor_pressure)

(***************************************************************************)
(* src/src/ceiling.rs : the analytical solver                              *)
(***************************************************************************)
\* a and b weighted by the two partial pressures (lines 30-31 and 187-188)
WeightedA(tissue, tissue_index) ==
    FDiv(FMul(N2_A[tissue_index], tissue.load_n2) + FMul(HE_A[tissue_index], tissue.load_he),
         tissue.load_n2 + tissue.load_he)

WeightedB(tissue, tissue_index) ==
    FDiv(FMul(N2_B[tissue_index], tissue.load_n2) + FMul(HE_B[tissue_index], tissue.load_he),
         tissue.load_n2 + tissue.load_he)

\* (1.0 - b) * gradient_factor + b
Denominator(gradient_factor, b) == FMul(SCALE - b, gradient_factor) + b

\* fabsf(denominator) < 1e-10 : 1e-10 is below one unit, so only 0 is below it
NearZero(denominator) == Abs(denominator) < 1

\* the same quotient with the gradient term added instead of subtracted
RequiredPressure_Plus(gradient_factor, a, b, p_total, denominator) ==
    Sign(denominator)
      * FDiv(FMul(b, p_total) + FMul(FMul(gradient_factor, a), b), Abs(denominator))

\* (b * p_total - gradient_factor * a * b) / denominator, in SCALE units of bar
RequiredPressure(gradient_factor, a, b, p_total, denominator) ==
    Sign(denominator)
      * FDiv(FMul(b, p_total) - FMul(FMul(gradient_factor, a), b), Abs(denominator))

\* line 43; only taken where p_total > 0 and the denominator is not near zero
ResultBar(gradient_factor, tissue, tissue_index) ==
    RequiredPressure(gradient_factor,
                     WeightedA(tissue, tissue_index), WeightedB(tissue, tissue_index),
                     tissue.load_n2 + tissue.load_he,
                     Denominator(gradient_factor, WeightedB(tissue, tissue_index)))

\* (result_bar - 1.0) * 10.0 in DM units of a metre
ResultMeters(gradient_factor, tissue, tissue_index) ==
    ResultBar(gradient_factor, tissue, tissue_index) - SCALE

\* a rounding that drops the 2.999 and so rounds down
RoundTo3_Down(result_meters) == (result_meters \div (3 * DM)) * 3

\* ((result_meters + 2.999) / 3.0) as u32 * 3, result_meters >= 0 in DM units
RoundTo3(result_meters) == ((result_meters + 2999000) \div (3 * DM)) * 3

\* lines 49-57: clamp at 0, then truncate or round
DepthOf(result_meters, round) ==
    IF result_meters < 0 THEN 0
    ELSE IF ~round THEN result_meters \div DM
    ELSE RoundTo3(result_meters)

\* a near-zero denominator answered by the formula at gradient factor 1.0
ceiling_with_gf_Fallback(gradient_factor, tissue, tissue_index, round) ==
    IF tissue.load_n2 + tissue.load_he <= 0 THEN 0
    ELSE IF NearZero(Denominator(gradient_factor, WeightedB(tissue, tissue_index)))
         THEN DepthOf(ResultMeters(SCALE, tissue, tissue_index), round)
    ELSE DepthOf(ResultMeters(gradient_factor, tissue, tissue_index), round)

ceiling_with_gf(gradient_factor, tissue, tissue_index, round) ==
    IF tissue.load_n2 + tissue.load_he <= 0 THEN 0
    ELSE IF NearZero(Denominator(gradient_factor, WeightedB(tissue, tissue_index))) THEN 0
    ELSE DepthOf(ResultMeters(gradient_factor, tissue, tissue_index), round)

ceiling(dive_parameters, tissue, tissue_index, round) ==
    ceiling_with_gf(dive_parameters.gf_low, tissue, tissue_index, round)

(***************************************************************************)
(* src/src/ceiling.rs : the bisection solver                               *)
(***************************************************************************)
\* depth_meters / 10.0 + 1.0 for a depth in D256 units
AmbientAtD256(depth) == SCALE + ((depth * 15625) \div 4)

is_oversaturated_at_depth(gradient_factor, tissue, tissue_index, depth) ==
    LET p_total == tissue.load_n2 + tissue.load_he
    IN  IF p_total <= 0 THEN FALSE
        ELSE IF NearZero(Denominator(gradient_factor, WeightedB(tissue, tissue_index))) THEN FALSE
        ELSE AmbientAtD256(depth) < ResultBar(gradient_factor, tissue, tissue_index)

BS_MAX_ITERATIONS == 50

\* lines 130-136: double high_depth while still oversaturated
RECURSIVE UpperBound(_, _, _, _, _)
UpperBound(gradient_factor, tissue, tissue_index, high_depth, iterations) ==
    IF is_oversaturated_at_depth(gradient_factor, tissue, tissue_index, high_depth)
       /\ iterations < BS_MAX_ITERATIONS
    THEN IF iterations + 1 >= BS_MAX_ITERATIONS THEN high_depth * 2
         ELSE UpperBound(gradient_factor, tissue, tissue_index, high_depth * 2, iterations + 1)
    ELSE high_depth

\* lines 142-154: (high_depth - low_depth) > PRECISION with PRECISION = 0.1 m
RECURSIVE Bisect(_, _, _, _, _, _)
Bisect(gradient_factor, tissue, tissue_index, low_depth, high_depth, iterations) ==
    IF 10 * (high_depth - low_depth) > D256 /\ iterations < BS_MAX_ITERATIONS
    THEN LET mid_depth == (low_depth + high_depth) \div 2
         IN  IF is_oversaturated_at_depth(gradient_factor, tissue, tissue_index, mid_depth)
             THEN Bisect(gradient_factor, tissue, tissue_index, mid_depth, high_depth, iterations + 1)
             ELSE Bisect(gradient_factor, tissue, tissue_index, low_depth, mid_depth, iterations + 1)
    ELSE high_depth

\* ((result_meters + 2.999) / 3.0) as u32 * 3 for result_meters in D256 units
RoundTo3D256(result_meters) ==
    ((result_meters * 1000 + 2999 * D256) \div (3000 * D256)) * 3

\* lines 157-168: clamp at 0, then truncate or round
DepthOfD256(result_meters, round) ==
    IF result_meters < 0 THEN 0
    ELSE IF ~round THEN result_meters \div D256
    ELSE RoundTo3D256(result_meters)

binary_ceiling_with_gf(gradient_factor, tissue, tissue_index, round) ==
    IF tissue.load_n2 + tissue.load_he <= 0 THEN 0
    ELSE IF ~is_oversaturated_at_depth(gradient_factor, tissue, tissue_index, 0) THEN 0
    ELSE DepthOfD256(Bisect(gradient_factor, tissue, tissue_index, 0,
                            UpperBound(gradient_factor, tissue, tissue_index, 100 * D256, 0),
                            0),
                     round)

binary_ceiling(dive_parameters, tissue, tissue_index, round) ==
    binary_ceiling_with_gf(dive_parameters.gf_low, tissue, tissue_index, round)

\* a comparison that also replaces an equal ceiling
Keep_AlsoEqual(best, tentative_max_ceiling, i) ==
    IF tentative_max_ceiling >= best[1] THEN <<tentative_max_ceiling, i>> ELSE best

\* lines 76-80: keep the strictly greater ceiling and its compartment
Keep(best, tentative_max_ceiling, i) ==
    IF tentative_max_ceiling > best[1] THEN <<tentative_max_ceiling, i>> ELSE best

\* lines 74-81: the loop over the compartments, best = <<max_ceiling, max_tissue_index>>
RECURSIVE MaxCeilingLoop(_, _, _, _)
MaxCeilingLoop(gradient_factor, tissues, i, best) ==
    IF i > 15 THEN best
    ELSE CHOOSE result \in
             { MaxCeilingLoop(gradient_factor, tissues, i + 1, Keep(best, c, i)) :
                 c \in {ceiling_with_gf(gradient_factor, tissues[i], i, TRUE)} } : TRUE

max_ceiling_with_gf(gradient_factor, tissues) ==
    MaxCeilingLoop(gradient_factor, tissues, 0, <<0, 0>>)

\* lines 85-96: the same loop over ceiling(dive_parameters, ...)
max_ceiling_of(dive_parameters, tissues) ==
    MaxCeilingLoop(dive_parameters.gf_low, tissues, 0, <<0, 0>>)


(***************************************************************************)
(* src/src/tissue.rs : calculate_tissue                                    *)
(***************************************************************************)
\* logf(2.0)
LN2 == 6931472

\* logf(2.0) / half_life, the half-life counted in 1/100 minute
RateConstant(half_life) == (LN2 * 100 + (half_life \div 2)) \div half_life

\* powf(E, -x) for 0 <= x, by the exponential series in Horner form
RECURSIVE ExpSeries(_, _)
ExpSeries(x, n) ==
    IF n > 12 THEN SCALE ELSE SCALE - (FMul(x, ExpSeries(x, n + 1)) \div n)

\* powf(E, -k * minutes_since_last_check)
ExpFactor(half_life, minutes) == ExpSeries(FMul(RateConstant(half_life), minutes), 1)

\* one second and one minute, the two elapsed times the callers pass most
ONE_SECOND == (TS * 50 + 1) \div 3
ONE_MINUTE == SCALE

N2_FACTOR_SECOND == [i \in Compartments |-> ExpFactor(N2_HALF_LIFE[i], ONE_SECOND)]
HE_FACTOR_SECOND == [i \in Compartments |-> ExpFactor(HE_HALF_LIFE[i], ONE_SECOND)]
N2_FACTOR_MINUTE == [i \in Compartments |-> ExpFactor(N2_HALF_LIFE[i], ONE_MINUTE)]
HE_FACTOR_MINUTE == [i \in Compartments |-> ExpFactor(HE_HALF_LIFE[i], ONE_MINUTE)]

e_to_exponent_n2(tissue_index, minutes) ==
    IF minutes = ONE_SECOND THEN N2_FACTOR_SECOND[tissue_index]
    ELSE IF minutes = ONE_MINUTE THEN N2_FACTOR_MINUTE[tissue_index]
    ELSE ExpFactor(N2_HALF_LIFE[tissue_index], minutes)

e_to_exponent_he(tissue_index, minutes) ==
    IF minutes = ONE_SECOND THEN HE_FACTOR_SECOND[tissue_index]
    ELSE IF minutes = ONE_MINUTE THEN HE_FACTOR_MINUTE[tissue_index]
    ELSE ExpFactor(HE_HALF_LIFE[tissue_index], minutes)

\* inspired partial pressures (lines 56-57)
InspiredN2(amb) == FMul(amb - water_vapor_pressure, FN2)
InspiredHe(amb) == FMul(amb - water_vapor_pressure, FHE)

\* lines 73-74: the nitrogen and the helium update as the code writes them
calculate_tissue(tis, tissue_index, amb, minutes) ==
    LET ppn2 == InspiredN2(amb)
        pphe == InspiredHe(amb)
        p0n2 == tis.load_n2
        p0he == tis.load_he
        fn2 == ppn2 + FMul(p0n2 - ppn2, e_to_exponent_n2(tissue_index, minutes))
        fhe == p0he + FMul(pphe - p0he, e_to_exponent_he(tissue_index, minutes))
    IN  [load_n2 |-> fn2, load_he |-> fhe]

(***************************************************************************)
(* State.                                                                  *)
(***************************************************************************)
VARIABLES
    pc,                          \* position of the running call
    \* arguments and results of the single-compartment calls
    gradient_factor, tissue, tissue_index,
    ceiling_out, binary_out,
    minutes_since_last_check, previous_tissue, kinetic_steps,
    \* ndl / binary_ndl
    dive_parameters, tissues, amb_pressure,
    bottom_time, max_ceiling, ndl_iterations, ndl_out,
    tissues_binary, binary_bottom_time, binary_out_ndl,
    \* simulate_with_ascent
    starting_ambient_pressure, target_depth, interval_in_seconds,
    bottom_time_seconds, include_ascent,
    depth, dive_time, descending, bottom, ascending, at_deco_stop,
    first_stop_depth, current_deco_depth, deco_stop_time,
    accumulated_short_stop_time, output_accumulator, iteration_count,
    surface_time, outputs,
    \* simulate: the tissues it returned
    simulate_out,
    \* max_ceiling / max_ceiling_with_gf: the pair returned
    max_ceiling_out,
    \* calculate_deco_stops
    current_stop_depth, stop_length, tissues_clone, base_tissues_clone, deco_result

single_vars == <<gradient_factor, tissue, tissue_index, ceiling_out, binary_out,
                 minutes_since_last_check, previous_tissue, kinetic_steps>>
ndl_vars == <<bottom_time, max_ceiling, ndl_iterations, ndl_out,
              tissues_binary, binary_bottom_time, binary_out_ndl>>
shared_vars == <<dive_parameters, tissues, amb_pressure>>
sim_inputs == <<starting_ambient_pressure, target_depth, interval_in_seconds,
                bottom_time_seconds, include_ascent>>
sim_vars == <<depth, dive_time, descending, bottom, ascending, at_deco_stop,
              first_stop_depth, current_deco_depth, deco_stop_time,
              accumulated_short_stop_time, output_accumulator, iteration_count,
              surface_time, outputs>>
deco_vars == <<current_stop_depth, stop_length, tissues_clone, base_tissues_clone, deco_result>>
vars == <<pc, single_vars, ndl_vars, shared_vars, sim_inputs, sim_vars, simulate_out,
          max_ceiling_out, deco_vars>>

\* Option: None, or Some(v) holding v
None == <<>>
Some(v) == <<v>>
Value(o) == o[1]
NoTissue == [load_n2 |-> 0, load_he |-> 0]
NoTissues == [i \in Compartments |-> NoTissue]
NoParameters == [gf_low |-> SCALE, gf_high |-> SCALE, descent_speed |-> 0, ascent_speed |-> 0]

SingleIdle ==
    /\ gradient_factor = SCALE /\ tissue = NoTissue /\ tissue_index = 0
    /\ ceiling_out = None /\ binary_out = None
    /\ minutes_since_last_check = 0 /\ previous_tissue = NoTissue /\ kinetic_steps = 0
NdlIdle ==
    /\ bottom_time = 0 /\ max_ceiling = 0 /\ ndl_iterations = 0 /\ ndl_out = None
    /\ tissues_binary = NoTissues /\ binary_bottom_time = 0 /\ binary_out_ndl = None
SharedIdle ==
    /\ dive_parameters = NoParameters /\ tissues = NoTissues /\ amb_pressure = SCALE
SimIdle ==
    /\ starting_ambient_pressure = SCALE /\ target_depth = 0 /\ interval_in_seconds = TS
    /\ bottom_time_seconds = 0 /\ include_ascent = FALSE
    /\ depth = 0 /\ dive_time = 0 /\ descending = TRUE /\ bottom = FALSE
    /\ ascending = FALSE /\ at_deco_stop = FALSE /\ first_stop_depth = None
    /\ current_deco_depth = 0 /\ deco_stop_time = 0 /\ accumulated_short_stop_time = 0
    /\ output_accumulator = 0 /\ iteration_count = 0 /\ surface_time = 0
    /\ outputs = 0
    /\ simulate_out = None
DecoIdle ==
    /\ max_ceiling_out = None
    /\ current_stop_depth = 0 /\ stop_length = 0
    /\ tissues_clone = NoTissues /\ base_tissues_clone = NoTissues /\ deco_result = None

(***************************************************************************)
(* Bounds of the input sets.                                               *)
(***************************************************************************)
MaxLoadIndex == 16
MaxKineticSteps == 3

Bar(hundredths) == hundredths * (SCALE \div 100)

\* gradient factors in (0, 1]
GradientFactors == {Bar(30), Bar(50), Bar(85), Bar(100)}

\* nitrogen loads: a grid of 0.37 bar steps from 0, a load whose ceiling lies
\* just below 3.001 m in compartment 1, and one whose ceiling is deeper than 100 m
GridLoads == {k * Bar(37) : k \in 0..MaxLoadIndex}
BoundaryLoads == {29958000, Bar(1250)}
HeliumLoads == {0, Bar(100)}

CeilingTissues ==
    {[load_n2 |-> n, load_he |-> h] : n \in GridLoads \cup BoundaryLoads, h \in HeliumLoads}

(***************************************************************************)
(* Single-compartment ceiling calls: ceiling_with_gf and                   *)
(* binary_ceiling_with_gf on the same arguments, rounded and unrounded.    *)
(***************************************************************************)
InitCeiling ==
    /\ pc = "ceiling"
    /\ gradient_factor \in GradientFactors
    /\ tissue \in CeilingTissues
    /\ tissue_index \in Compartments
    /\ ceiling_out = None /\ binary_out = None
    /\ minutes_since_last_check = 0 /\ previous_tissue = NoTissue /\ kinetic_steps = 0
    /\ NdlIdle /\ SharedIdle /\ SimIdle /\ DecoIdle

CallCeiling ==
    /\ pc = "ceiling"
    /\ ceiling_out = None
    /\ ceiling_out' = Some([rounded |-> ceiling_with_gf(gradient_factor, tissue, tissue_index, TRUE),
                            unrounded |-> ceiling_with_gf(gradient_factor, tissue, tissue_index, FALSE)])
    /\ pc' = IF binary_out = None THEN "ceiling" ELSE "ceiling_done"
    /\ UNCHANGED <<gradient_factor, tissue, tissue_index, binary_out,
                   minutes_since_last_check, previous_tissue, kinetic_steps>>
    /\ UNCHANGED <<ndl_vars, shared_vars, sim_inputs, sim_vars>>
    /\ UNCHANGED <<simulate_out, max_ceiling_out, deco_vars>>

CallBinaryCeiling ==
    /\ pc = "ceiling"
    /\ binary_out = None
    /\ binary_out' = Some([rounded |-> binary_ceiling_with_gf(gradient_factor, tissue, tissue_index, TRUE),
                           unrounded |-> binary_ceiling_with_gf(gradient_factor, tissue, tissue_index, FALSE)])
    /\ pc' = IF ceiling_out = None THEN "ceiling" ELSE "ceiling_done"
    /\ UNCHANGED <<gradient_factor, tissue, tissue_index, ceiling_out,
                   minutes_since_last_check, previous_tissue, kinetic_steps>>
    /\ UNCHANGED <<ndl_vars, shared_vars, sim_inputs, sim_vars>>
    /\ UNCHANGED <<simulate_out, max_ceiling_out, deco_vars>>

NextCeiling == CallCeiling \/ CallBinaryCeiling

SpecCeiling == InitCeiling /\ [][NextCeiling]_vars

\* the ceiling formula has a value: positive total load, denominator not near zero
HasExactCeiling ==
    /\ tissue.load_n2 + tissue.load_he > 0
    /\ ~NearZero(Denominator(gradient_factor, WeightedB(tissue, tissue_index)))

(***************************************************************************)
(* The same two calls on degenerate arguments: a total inert gas load that *)
(* is not positive, and a gradient factor that makes the denominator of    *)
(* the ceiling formula vanish.                                             *)
(***************************************************************************)
\* tissues with load_n2 + load_he <= 0
EmptyTissues ==
    { t \in {[load_n2 |-> n, load_he |-> h] :
                n \in {0, -Bar(50), Bar(100)}, h \in {0, -Bar(100)}} :
        t.load_n2 + t.load_he <= 0 }

LoadedTissues == {[load_n2 |-> Bar(300), load_he |-> 0], [load_n2 |-> Bar(200), load_he |-> Bar(100)]}

\* a gradient factor with (1.0 - b) * gradient_factor + b = 0: -b / (1 - b),
\* up to the rounding of the product
ZeroDenominatorFactor(b) ==
    CHOOSE g \in (-FDiv(b, SCALE - b) - 3)..(-FDiv(b, SCALE - b) + 3) :
        NearZero(Denominator(g, b))

\* the calls: <<gradient_factor, tissue, tissue_index>>
DegenerateCalls ==
    { <<g, t, i>> : g \in GradientFactors, t \in EmptyTissues, i \in Compartments }
    \cup { <<ZeroDenominatorFactor(WeightedB(t, i)), t, i>> :
             t \in LoadedTissues, i \in Compartments }

InitDegenerate ==
    /\ pc = "ceiling"
    /\ \E call \in DegenerateCalls :
          /\ gradient_factor = call[1]
          /\ tissue = call[2]
          /\ tissue_index = call[3]
    /\ ceiling_out = None /\ binary_out = None
    /\ minutes_since_last_check = 0 /\ previous_tissue = NoTissue /\ kinetic_steps = 0
    /\ NdlIdle /\ SharedIdle /\ SimIdle /\ DecoIdle

SpecDegenerate == InitDegenerate /\ [][NextCeiling]_vars

\* the depths the bisection predicate is asked about, in D256 units
ProbeDepths == {0, 3 * D256, 100 * D256, 200 * D256}

(***************************************************************************)
(* Single-compartment kinetics: calculate_tissue applied repeatedly at a   *)
(* fixed ambient pressure.                                                 *)
(***************************************************************************)
KineticLoadsN2 == {default_tissue_load, Bar(200), Bar(300)}
KineticLoadsHe == {0, Bar(100)}
KineticPressures == {Bar(100), Bar(300), Bar(400)}
KineticMinutes == {0, ONE_SECOND, ONE_MINUTE}

InitKinetics ==
    /\ pc = "kinetics"
    /\ tissue \in {[load_n2 |-> n, load_he |-> h] : n \in KineticLoadsN2, h \in KineticLoadsHe}
    /\ tissue_index \in Compartments
    /\ amb_pressure \in KineticPressures
    /\ minutes_since_last_check \in KineticMinutes
    /\ previous_tissue = tissue
    /\ kinetic_steps = 0
    /\ gradient_factor = SCALE /\ ceiling_out = None /\ binary_out = None
    /\ dive_parameters = NoParameters /\ tissues = NoTissues
    /\ NdlIdle /\ SimIdle /\ DecoIdle

CallCalculateTissue ==
    /\ pc = "kinetics"
    /\ kinetic_steps < MaxKineticSteps
    /\ minutes_since_last_check >= 0
    /\ previous_tissue' = tissue
    /\ tissue' = calculate_tissue(tissue, tissue_index, amb_pressure, minutes_since_last_check)
    /\ kinetic_steps' = kinetic_steps + 1
    /\ UNCHANGED <<pc, gradient_factor, tissue_index, ceiling_out, binary_out,
                   minutes_since_last_check, dive_parameters, tissues, amb_pressure>>
    /\ UNCHANGED <<ndl_vars, sim_inputs, sim_vars>>
    /\ UNCHANGED <<simulate_out, max_ceiling_out, deco_vars>>

NextKinetics == CallCalculateTissue

SpecKinetics == InitKinetics /\ [][NextKinetics]_vars

(***************************************************************************)
(* src/src/ndl.rs : ndl.  The call ceiling(dive_parameters, tissues[i], i) *)
(* names no rounding flag; the ceiling is taken rounded, as max_ceiling    *)
(* takes it.  bottom_time counts whole minutes.                            *)
(***************************************************************************)
MaxNdlIterations == 10002

\* line 14: every compartment advanced by 1.0 minute at amb_pressure
NdlAdvance(ts, amb) ==
    [i \in Compartments |-> calculate_tissue(ts[i], i, amb, ONE_MINUTE)]

\* line 15: max_ceiling = u32::max(max_ceiling, ceiling(...)), compartment by compartment
RECURSIVE NdlMaxCeiling(_, _, _, _)
NdlMaxCeiling(mc, dp, ts, i) ==
    IF i > 15 THEN mc
    ELSE CHOOSE result \in
             { NdlMaxCeiling(Max(mc, c), dp, ts, i + 1) :
                 c \in {ceiling(dp, ts[i], i, TRUE)} } : TRUE

\* line 25: the value returned when the ceiling is non-zero
NdlReturn_PlusOne(bt) == bt + 1

NdlReturn(bt) == bt

\* one pass of the loop of lines 12-28
NdlIteration ==
    /\ pc = "ndl"
    /\ ndl_iterations < MaxNdlIterations
    /\ \E advanced \in {NdlAdvance(tissues, amb_pressure)} :
       \E mc \in {NdlMaxCeiling(max_ceiling, dive_parameters, advanced, 0)} :
          /\ tissues' = advanced
          /\ max_ceiling' = mc
          /\ ndl_iterations' = ndl_iterations + 1
          /\ IF mc # 0
             THEN /\ ndl_out' = Some(NdlReturn(bottom_time))
                  /\ bottom_time' = bottom_time
                  /\ pc' = "binary_ndl"
             ELSE /\ ndl_out' = ndl_out
                  /\ bottom_time' = bottom_time + 1
                  /\ pc' = "ndl"
    /\ UNCHANGED <<tissues_binary, binary_bottom_time, binary_out_ndl>>
    /\ UNCHANGED <<dive_parameters, amb_pressure>>
    /\ UNCHANGED <<single_vars, sim_inputs, sim_vars>>
    /\ UNCHANGED <<simulate_out, max_ceiling_out, deco_vars>>

(***************************************************************************)
(* binary_ndl: the loop of ndl with the oversaturation predicate of the    *)
(* bisection solver at depth 0 as its test, and a cap of 10,000 passes.    *)
(***************************************************************************)
NDL_CAP == 10000

BinaryOversaturated(dp, ts) ==
    \E i \in Compartments : is_oversaturated_at_depth(dp.gf_low, ts[i], i, 0)

BinaryNdlIteration ==
    /\ pc = "binary_ndl"
    /\ \E advanced \in {NdlAdvance(tissues_binary, amb_pressure)} :
          /\ tissues_binary' = advanced
          /\ IF BinaryOversaturated(dive_parameters, advanced)
             THEN /\ binary_out_ndl' = Some(binary_bottom_time)
                  /\ binary_bottom_time' = binary_bottom_time
                  /\ pc' = "ndl_done"
             ELSE /\ binary_out_ndl' = binary_out_ndl
                  /\ binary_bottom_time' = binary_bottom_time + 1
                  /\ pc' = IF binary_bottom_time + 1 > NDL_CAP
                           THEN "ndl_abort" ELSE "binary_ndl"
    /\ UNCHANGED <<bottom_time, max_ceiling, ndl_iterations, ndl_out>>
    /\ UNCHANGED <<shared_vars, single_vars, sim_inputs, sim_vars>>
    /\ UNCHANGED <<simulate_out, max_ceiling_out, deco_vars>>

SurfaceTissues == [i \in Compartments |-> [load_n2 |-> default_tissue_load, load_he |-> 0]]

\* the calls: <<amb_pressure, gf_low>>; at 1.2 bar the ceiling never appears
NdlCalls ==
    { <<Bar(120), Bar(100)>>,
      <<Bar(200), Bar(30)>>, <<Bar(200), Bar(100)>>,
      <<Bar(400), Bar(30)>>, <<Bar(400), Bar(100)>>,
      <<Bar(700), Bar(100)>> }

InitNdl ==
    /\ pc = "ndl"
    /\ \E call \in NdlCalls :
          /\ amb_pressure = call[1]
          /\ dive_parameters =
                [gf_low |-> call[2], gf_high |-> call[2],
                 descent_speed |-> 0, ascent_speed |-> 0]
    /\ tissues = SurfaceTissues
    /\ tissues_binary = tissues
    /\ bottom_time = 0 /\ max_ceiling = 0 /\ ndl_iterations = 0 /\ ndl_out = None
    /\ binary_bottom_time = 0 /\ binary_out_ndl = None
    /\ SingleIdle /\ SimIdle /\ DecoIdle

NextNdl == NdlIteration \/ BinaryNdlIteration

SpecNdl == InitNdl /\ [][NextNdl]_vars


(***************************************************************************)
(* src/src/simulate.rs : simulate_with_ascent.  One action per pass of the *)
(* main loop, one for each branch the pass can take, and one per pass of   *)
(* the surface loop.  pc = "sim" in the main loop, "sim_surface" in the    *)
(* surface loop; the other values name the break the call returned through.*)
(* SimulationOutputs is modelled by the number of recorded samples.        *)
(***************************************************************************)
\* line 93 has 50000000; the model runs the same loop with a smaller cap
MAX_ITERATIONS == 1250

\* line 86
internal_step == TS

\* x / y in seconds for a distance x and a speed y > 0, rounded up so that a
\* step of that length covers the distance
QuotT(x, y) ==
    LET r1 == (x % y) * 100
        r2 == (r1 % y) * 100
    IN  (x \div y) * TS + (r1 \div y) * 100 + (r2 \div y) + (IF r2 % y > 0 THEN 1 ELSE 0)

\* speed * step in metres
MulT(speed, step) == (speed \div TS) * step + ((speed % TS) * step + TS \div 2) \div TS

\* internal_step.min(distance / speed)
StepFor(distance, speed) ==
    IF distance < speed THEN Min(internal_step, QuotT(distance, speed)) ELSE internal_step

\* step / 60.0
Minutes(step) == (step * 50 + 1) \div 3

\* depth / 10.0 + 1.0
AmbientAt(d) == SCALE + d

\* for i in 0..16 { tissues[i] = calculate_tissue(tissues[i], i, amb, temperature, minutes) }
Advance(ts, amb, minutes) ==
    [i \in Compartments |-> calculate_tissue(ts[i], i, amb, minutes)]

calculate_deco_stop_depth_Deeper(c) ==
    Max(((c * 1000 + 3000) \div 3000) * 3 * DM, 3 * DM)

\* lines 373-377
calculate_deco_stop_depth(c) ==
    Max(((c * 1000 + 2999) \div 3000) * 3 * DM, 3 * DM)

\* lines 99-102: the test at the top of the loop
CapHit_Late(count) == count > MAX_ITERATIONS

CapHit(count) == count >= MAX_ITERATIONS

Running ==
    /\ pc = "sim"
    /\ ~CapHit(iteration_count + 1)
    /\ iteration_count' = iteration_count + 1

\* output_accumulator += step; record and subtract the interval when it is reached
Account(step) ==
    LET acc == output_accumulator + step
    IN  IF acc >= interval_in_seconds
        THEN /\ outputs' = outputs + 1
             /\ output_accumulator' = acc - interval_in_seconds
        ELSE /\ outputs' = outputs
             /\ output_accumulator' = acc

\* a timed move to depth d: tissues, clocks and the output record
Move(d, amb, step) ==
    /\ depth' = d
    /\ amb_pressure' = amb
    /\ tissues' = Advance(tissues, amb, Minutes(step))
    /\ dive_time' = dive_time + step
    /\ Account(step)

\* lines 99-106
CapReached ==
    /\ pc = "sim"
    /\ CapHit(iteration_count + 1)
    /\ iteration_count' = iteration_count + 1
    /\ pc' = "sim_cap"
    /\ UNCHANGED <<depth, dive_time, descending, bottom, ascending, at_deco_stop,
                   first_stop_depth, current_deco_depth, deco_stop_time,
                   accumulated_short_stop_time, output_accumulator, surface_time, outputs>>
    /\ UNCHANGED <<shared_vars, sim_inputs, single_vars, ndl_vars>>
    /\ UNCHANGED <<simulate_out, max_ceiling_out, deco_vars>>

\* lines 108-135
Descend ==
    /\ Running
    /\ descending
    /\ \E step \in {StepFor(target_depth - depth, dive_parameters.descent_speed)} :
       \E d \in {depth + MulT(dive_parameters.descent_speed, step)} :
          /\ Move(d, AmbientAt(d), step)
          /\ IF d >= target_depth
             THEN descending' = FALSE /\ bottom' = TRUE
             ELSE UNCHANGED <<descending, bottom>>
    /\ pc' = pc
    /\ UNCHANGED <<ascending, at_deco_stop, first_stop_depth, current_deco_depth,
                   deco_stop_time, accumulated_short_stop_time, surface_time>>
    /\ UNCHANGED <<dive_parameters, sim_inputs, single_vars, ndl_vars>>
    /\ UNCHANGED <<simulate_out, max_ceiling_out, deco_vars>>

\* lines 138-139
remaining_bottom_time ==
    bottom_time_seconds - (dive_time - QuotT(target_depth, dive_parameters.descent_speed))

BottomEnd_KeepsBottom ==
    /\ Running
    /\ ~descending /\ bottom
    /\ remaining_bottom_time <= 0
    /\ bottom' = TRUE /\ ascending' = TRUE
    /\ pc' = pc
    /\ UNCHANGED <<depth, dive_time, descending, at_deco_stop, first_stop_depth,
                   current_deco_depth, deco_stop_time, accumulated_short_stop_time,
                   output_accumulator, surface_time, outputs>>
    /\ UNCHANGED <<shared_vars, sim_inputs, single_vars, ndl_vars>>
    /\ UNCHANGED <<simulate_out, max_ceiling_out, deco_vars>>

\* lines 141-147
BottomEnd ==
    /\ Running
    /\ ~descending /\ bottom
    /\ remaining_bottom_time <= 0
    /\ bottom' = FALSE /\ ascending' = TRUE
    /\ pc' = pc
    /\ UNCHANGED <<depth, dive_time, descending, at_deco_stop, first_stop_depth,
                   current_deco_depth, deco_stop_time, accumulated_short_stop_time,
                   output_accumulator, surface_time, outputs>>
    /\ UNCHANGED <<shared_vars, sim_inputs, single_vars, ndl_vars>>
    /\ UNCHANGED <<simulate_out, max_ceiling_out, deco_vars>>

\* lines 149-163
BottomStep ==
    /\ Running
    /\ ~descending /\ bottom
    /\ \E remaining \in {remaining_bottom_time} :
          /\ remaining > 0
          /\ Move(target_depth, AmbientAt(target_depth), Min(internal_step, remaining))
    /\ pc' = pc
    /\ UNCHANGED <<descending, bottom, ascending, at_deco_stop, first_stop_depth,
                   current_deco_depth, deco_stop_time, accumulated_short_stop_time,
                   surface_time>>
    /\ UNCHANGED <<dive_parameters, sim_inputs, single_vars, ndl_vars>>
    /\ UNCHANGED <<simulate_out, max_ceiling_out, deco_vars>>

InAscent == Running /\ ~descending /\ ~bottom /\ ascending /\ include_ascent

\* lines 170-172: the first stop is latched from the ceiling at gf_low
LatchedFirstStop(ceiling_with_gf_low) ==
    IF first_stop_depth = None /\ ceiling_with_gf_low > 0
    THEN Some(ceiling_with_gf_low) ELSE first_stop_depth

current_gf_Inverted(first_stop) ==
    IF first_stop # None
    THEN dive_parameters.gf_low
         + FMul(dive_parameters.gf_high - dive_parameters.gf_low,
                Min(SCALE, Max(0, (depth * 10) \div Value(first_stop))))
    ELSE dive_parameters.gf_high

current_gf_AlwaysLow(first_stop) == dive_parameters.gf_low

\* lines 175-189
current_gf(first_stop) ==
    IF first_stop # None
    THEN IF depth <= 0 THEN dive_parameters.gf_high
         ELSE IF depth >= Value(first_stop) * DM THEN dive_parameters.gf_low
         ELSE dive_parameters.gf_low
              + FMul(dive_parameters.gf_high - dive_parameters.gf_low,
                     SCALE - ((depth * 10) \div Value(first_stop)))
    ELSE dive_parameters.gf_high

\* lines 164-191: the head of every ascent pass, then the branch it takes
AscentPass(Branch(_, _)) ==
    /\ InAscent
    /\ \E first_stop \in
           {LatchedFirstStop(max_ceiling_with_gf(dive_parameters.gf_low, tissues)[1])} :
       \E gf \in {current_gf(first_stop)} :
       \E current_ceiling \in {max_ceiling_with_gf(gf, tissues)[1]} :
          /\ first_stop_depth' = first_stop
          /\ Branch(gf, current_ceiling)
    /\ UNCHANGED <<dive_parameters, sim_inputs, single_vars, ndl_vars>>
    /\ UNCHANGED <<simulate_out, max_ceiling_out, deco_vars>>

\* line 195
StopNeeded(current_ceiling) == current_ceiling > 0 /\ depth > current_ceiling * DM

\* lines 195-236
ToStop(gf, current_ceiling) ==
    /\ ~at_deco_stop
    /\ StopNeeded(current_ceiling)
    /\ \E deco_depth \in {calculate_deco_stop_depth(current_ceiling)} :
          /\ current_deco_depth' = deco_depth
          /\ at_deco_stop' = TRUE
          /\ deco_stop_time' = accumulated_short_stop_time
          /\ accumulated_short_stop_time' = 0
          /\ IF depth > deco_depth
             THEN \E step \in {StepFor(depth - deco_depth, dive_parameters.ascent_speed)} :
                  \E d \in {Max(depth - MulT(dive_parameters.ascent_speed, step), deco_depth)} :
                     Move(d, AmbientAt(d), step)
             ELSE UNCHANGED <<depth, amb_pressure, tissues, dive_time,
                              output_accumulator, outputs>>
    /\ pc' = pc
    /\ UNCHANGED <<descending, bottom, ascending, surface_time>>

AscentToStop == ~at_deco_stop /\ AscentPass(ToStop)

\* lines 240-247
safety_ceiling(gf, current_ceiling) ==
    IF depth < 6 * DM
    THEN max_ceiling_with_gf(FMul(gf, 9000000), tissues)[1]
    ELSE current_ceiling

MayAscend_Always(ceiling_now) == TRUE

\* line 249
MayAscend(ceiling_now) == ceiling_now = 0 \/ depth > ceiling_now * DM

\* lines 237-249: no stop is needed and the diver is below the surface
FreeAscent(gf, current_ceiling, allowed) ==
    /\ ~at_deco_stop
    /\ ~StopNeeded(current_ceiling)
    /\ depth > 0
    /\ \E ceiling_now \in {safety_ceiling(gf, current_ceiling)} :
          MayAscend(ceiling_now) = allowed

\* lines 249-253, 283-295
Free(gf, current_ceiling) ==
    /\ FreeAscent(gf, current_ceiling, TRUE)
    /\ \E step \in {StepFor(depth, dive_parameters.ascent_speed)} :
       \E d \in {depth - MulT(dive_parameters.ascent_speed, step)} :
          /\ d > 0
          /\ Move(d, AmbientAt(d), step)
    /\ pc' = pc
    /\ UNCHANGED <<descending, bottom, ascending, at_deco_stop, current_deco_depth,
                   deco_stop_time, accumulated_short_stop_time, surface_time>>

AscentFree == ~at_deco_stop /\ AscentPass(Free)

surface_time_needed_Longer == 61 * TS

\* line 261
surface_time_needed == 60 * TS

\* lines 249-258: the step that reaches the surface; the surface loop follows
Surface(gf, current_ceiling) ==
    /\ FreeAscent(gf, current_ceiling, TRUE)
    /\ depth - MulT(dive_parameters.ascent_speed,
                    StepFor(depth, dive_parameters.ascent_speed)) <= 0
    /\ depth' = 0
    /\ amb_pressure' = starting_ambient_pressure
    /\ surface_time' = 0
    /\ pc' = "sim_surface"
    /\ UNCHANGED <<tissues, dive_time, descending, bottom, ascending, at_deco_stop,
                   current_deco_depth, deco_stop_time, accumulated_short_stop_time,
                   output_accumulator, outputs>>

AscentSurface == ~at_deco_stop /\ AscentPass(Surface)

\* lines 264-281: one pass of the surface loop; the break follows the last
SurfaceStep ==
    /\ pc = "sim_surface"
    /\ surface_time < surface_time_needed
    /\ tissues' = Advance(tissues, amb_pressure, Minutes(internal_step))
    /\ dive_time' = dive_time + internal_step
    /\ surface_time' = surface_time + internal_step
    /\ Account(internal_step)
    /\ pc' = IF surface_time + internal_step < surface_time_needed
             THEN "sim_surface" ELSE "sim_surfaced"
    /\ UNCHANGED <<depth, descending, bottom, ascending, at_deco_stop,
                   first_stop_depth, current_deco_depth, deco_stop_time,
                   accumulated_short_stop_time, iteration_count>>
    /\ UNCHANGED <<dive_parameters, amb_pressure, sim_inputs, single_vars, ndl_vars>>
    /\ UNCHANGED <<simulate_out, max_ceiling_out, deco_vars>>

\* lines 296-310: the ceiling still holds the diver at the current depth
Wait(gf, current_ceiling) ==
    /\ FreeAscent(gf, current_ceiling, FALSE)
    /\ Move(depth, AmbientAt(depth), internal_step)
    /\ pc' = pc
    /\ UNCHANGED <<descending, bottom, ascending, at_deco_stop, current_deco_depth,
                   deco_stop_time, accumulated_short_stop_time, surface_time>>

AscentWait == ~at_deco_stop /\ AscentPass(Wait)

\* lines 312-315
AtSurface(gf, current_ceiling) ==
    /\ ~at_deco_stop
    /\ ~StopNeeded(current_ceiling)
    /\ depth <= 0
    /\ pc' = "sim_at_surface"
    /\ UNCHANGED <<depth, amb_pressure, tissues, dive_time, descending, bottom, ascending,
                   at_deco_stop, current_deco_depth, deco_stop_time,
                   accumulated_short_stop_time, output_accumulator, surface_time, outputs>>

AscentAtSurface == ~at_deco_stop /\ AscentPass(AtSurface)

Cleared_AtStopDepth(new_ceiling, stop_depth) ==
    new_ceiling = 0 \/ new_ceiling * DM <= stop_depth

\* line 339: the stop is cleared
Cleared(new_ceiling, stop_depth) ==
    new_ceiling = 0 \/ new_ceiling * DM + DM \div 2 < stop_depth

LeaveOrStay_NothingCarried(stop_time, clear) ==
    /\ at_deco_stop' = (~clear /\ stop_time < 20 * 60 * TS)
    /\ deco_stop_time' = IF clear \/ stop_time >= 20 * 60 * TS THEN 0 ELSE stop_time
    /\ accumulated_short_stop_time' = accumulated_short_stop_time

\* lines 339-359: leave the stop when it is cleared, or after 20 minutes
LeaveOrStay(stop_time, clear) ==
    /\ at_deco_stop' = (~clear /\ stop_time < 20 * 60 * TS)
    /\ deco_stop_time' = IF clear \/ stop_time >= 20 * 60 * TS THEN 0 ELSE stop_time
    /\ accumulated_short_stop_time' =
          IF clear /\ stop_time < 60 * TS
          THEN accumulated_short_stop_time + stop_time
          ELSE accumulated_short_stop_time

\* lines 316-360
AtStop(gf, current_ceiling) ==
    /\ at_deco_stop
    /\ Move(current_deco_depth, AmbientAt(current_deco_depth), internal_step)
    /\ \E new_ceiling \in {max_ceiling_with_gf(gf, tissues')[1]} :
          LeaveOrStay(deco_stop_time + internal_step,
                      Cleared(new_ceiling, current_deco_depth))
    /\ pc' = pc
    /\ UNCHANGED <<descending, bottom, ascending, current_deco_depth, surface_time>>

DecoStop == at_deco_stop /\ AscentPass(AtStop)

Returned == {"sim_cap", "sim_surfaced", "sim_at_surface", "sim_no_ascent"}

\* lines 361-364
NoAscentEnd ==
    /\ Running
    /\ ~descending /\ ~bottom
    /\ ~(ascending /\ include_ascent)
    /\ pc' = "sim_no_ascent"
    /\ UNCHANGED <<depth, dive_time, descending, bottom, ascending, at_deco_stop,
                   first_stop_depth, current_deco_depth, deco_stop_time,
                   accumulated_short_stop_time, output_accumulator, surface_time, outputs>>
    /\ UNCHANGED <<shared_vars, sim_inputs, single_vars, ndl_vars>>
    /\ UNCHANGED <<simulate_out, max_ceiling_out, deco_vars>>

\* DiveParameters::default() speeds, lib.rs
Parameters(low, high) ==
    [gf_low |-> low, gf_high |-> high, descent_speed |-> 330000, ascent_speed |-> 170000]

\* the dives: <<gf_low, gf_high, target_depth (m), bottom_time_seconds (s),
\* include_ascent, nitrogen load of compartment 15 at the call,
\* interval_in_seconds (tenths of a second)>>; the sixth dive starts with the
\* slowest compartment at 1.57 bar, as a repeated dive does: its ceiling is 3 m
\* at gradient factor 1.0 and 6 m at 0.9; the last dive records every half
\* second
Dives ==
    { <<Bar(30), Bar(85), 50, 180, TRUE, default_tissue_load, 10>>,
      <<Bar(100), Bar(100), 10, 60, TRUE, default_tissue_load, 10>>,
      <<Bar(100), Bar(100), 0, 5, TRUE, default_tissue_load, 10>>,
      <<Bar(30), Bar(85), 20, 60, FALSE, default_tissue_load, 10>>,
      <<Bar(85), Bar(85), 10, 2000, TRUE, default_tissue_load, 10>>,
      <<Bar(100), Bar(100), 5, 5, TRUE, Bar(157), 10>>,
      <<Bar(100), Bar(100), 0, 5, TRUE, default_tissue_load, 5>> }

InitSim ==
    /\ pc = "sim"
    /\ \E dive \in Dives :
          /\ dive_parameters = Parameters(dive[1], dive[2])
          /\ target_depth = dive[3] * DM
          /\ bottom_time_seconds = dive[4] * TS
          /\ include_ascent = dive[5]
          /\ tissues = [SurfaceTissues EXCEPT ![15].load_n2 = dive[6]]
          /\ interval_in_seconds = dive[7] * (TS \div 10)
    /\ starting_ambient_pressure = SCALE
    /\ amb_pressure = starting_ambient_pressure
    /\ depth = 0 /\ dive_time = 0 /\ descending = TRUE /\ bottom = FALSE
    /\ ascending = FALSE /\ at_deco_stop = FALSE /\ first_stop_depth = None
    /\ current_deco_depth = 0 /\ deco_stop_time = 0 /\ accumulated_short_stop_time = 0
    /\ output_accumulator = 0 /\ iteration_count = 0 /\ surface_time = 0
    /\ outputs = 0
    /\ simulate_out = None
    /\ SingleIdle /\ NdlIdle /\ DecoIdle

NextSim ==
    \/ CapReached
    \/ Descend
    \/ BottomEnd
    \/ BottomStep
    \/ AscentToStop
    \/ AscentFree
    \/ AscentSurface
    \/ SurfaceStep
    \/ AscentWait
    \/ AscentAtSurface
    \/ DecoStop
    \/ NoAscentEnd

SpecSim == InitSim /\ [][NextSim]_vars

(***************************************************************************)
(* src/src/simulate.rs : simulate.  The call is followed by                *)
(* simulate_with_ascent(..., include_ascent = false) on the same arguments *)
(* and fresh tissues, so that the tissues the two calls leave can be       *)
(* compared; simulate_out keeps the tissues simulate left.                 *)
(***************************************************************************)
\* the locals of simulate_with_ascent at entry (lines 72-92)
SimEntry ==
    /\ depth' = 0 /\ dive_time' = 0 /\ descending' = TRUE /\ bottom' = FALSE
    /\ ascending' = FALSE /\ at_deco_stop' = FALSE /\ first_stop_depth' = None
    /\ current_deco_depth' = 0 /\ deco_stop_time' = 0 /\ accumulated_short_stop_time' = 0
    /\ output_accumulator' = 0 /\ iteration_count' = 0 /\ surface_time' = 0
    /\ outputs' = 0

\* lines 47-57: simulate hands its arguments on, with include_ascent = true
CallSimulate ==
    /\ pc = "simulate"
    /\ include_ascent' = TRUE
    /\ amb_pressure' = starting_ambient_pressure
    /\ SimEntry
    /\ pc' = "sim"
    /\ UNCHANGED <<dive_parameters, tissues, starting_ambient_pressure, target_depth,
                   interval_in_seconds, bottom_time_seconds>>
    /\ UNCHANGED <<single_vars, ndl_vars, simulate_out, max_ceiling_out, deco_vars>>

\* simulate has returned: its tissues are kept and simulate_with_ascent is
\* called without the ascent, from the tissues simulate started with
CallWithoutAscent ==
    /\ pc \in Returned
    /\ simulate_out = None
    /\ simulate_out' = Some(tissues)
    /\ tissues' = SurfaceTissues
    /\ include_ascent' = FALSE
    /\ amb_pressure' = starting_ambient_pressure
    /\ SimEntry
    /\ pc' = "sim"
    /\ UNCHANGED <<dive_parameters, starting_ambient_pressure, target_depth,
                   interval_in_seconds, bottom_time_seconds>>
    /\ UNCHANGED <<single_vars, ndl_vars, max_ceiling_out, deco_vars>>

InitSimulate ==
    /\ pc = "simulate"
    /\ \E dive \in Dives :
          /\ dive_parameters = Parameters(dive[1], dive[2])
          /\ target_depth = dive[3] * DM
          /\ bottom_time_seconds = dive[4] * TS
          /\ dive[6] = default_tissue_load
    /\ include_ascent = FALSE
    /\ tissues = SurfaceTissues
    /\ starting_ambient_pressure = SCALE
    /\ amb_pressure = starting_ambient_pressure
    /\ interval_in_seconds = TS
    /\ depth = 0 /\ dive_time = 0 /\ descending = TRUE /\ bottom = FALSE
    /\ ascending = FALSE /\ at_deco_stop = FALSE /\ first_stop_depth = None
    /\ current_deco_depth = 0 /\ deco_stop_time = 0 /\ accumulated_short_stop_time = 0
    /\ output_accumulator = 0 /\ iteration_count = 0 /\ surface_time = 0
    /\ outputs = 0
    /\ simulate_out = None
    /\ SingleIdle /\ NdlIdle /\ DecoIdle

NextSimulate == CallSimulate \/ NextSim \/ CallWithoutAscent

SpecSimulate == InitSimulate /\ [][NextSimulate]_vars

(***************************************************************************)
(* src/src/ceiling.rs : max_ceiling and max_ceiling_with_gf called on an   *)
(* array of 16 tissues.                                                    *)
(***************************************************************************)
\* nitrogen loads of the arrays: every compartment at one load, one
\* compartment at another
MaxCeilingLoads == {0, default_tissue_load, Bar(150), Bar(222), Bar(300)}

MaxCeilingTissues ==
    { [i \in Compartments |->
          [load_n2 |-> IF i = j THEN hi ELSE lo, load_he |-> 0]] :
        lo \in MaxCeilingLoads, hi \in MaxCeilingLoads, j \in Compartments }

InitMaxCeiling ==
    /\ pc \in {"max_ceiling", "max_ceiling_with_gf"}
    /\ gradient_factor \in GradientFactors
    /\ dive_parameters = [gf_low |-> gradient_factor, gf_high |-> SCALE,
                          descent_speed |-> 0, ascent_speed |-> 0]
    /\ tissues \in MaxCeilingTissues
    /\ amb_pressure = SCALE
    /\ tissue = NoTissue /\ tissue_index = 0
    /\ ceiling_out = None /\ binary_out = None
    /\ minutes_since_last_check = 0 /\ previous_tissue = NoTissue /\ kinetic_steps = 0
    /\ NdlIdle /\ SimIdle /\ DecoIdle

\* lines 85-96
CallMaxCeiling ==
    /\ pc = "max_ceiling"
    /\ max_ceiling_out' = Some(max_ceiling_of(dive_parameters, tissues))
    /\ pc' = "max_ceiling_done"
    /\ UNCHANGED <<single_vars, ndl_vars, shared_vars, sim_inputs, sim_vars,
                   simulate_out, deco_vars>>

\* lines 71-82
CallMaxCeilingWithGf ==
    /\ pc = "max_ceiling_with_gf"
    /\ max_ceiling_out' = Some(max_ceiling_with_gf(gradient_factor, tissues))
    /\ pc' = "max_ceiling_done"
    /\ UNCHANGED <<single_vars, ndl_vars, shared_vars, sim_inputs, sim_vars,
                   simulate_out, deco_vars>>

NextMaxCeiling == CallMaxCeiling \/ CallMaxCeilingWithGf

SpecMaxCeiling == InitMaxCeiling /\ [][NextMaxCeiling]_vars

\* the rounded ceiling of every compartment
Ceilings(gf, ts) == [i \in Compartments |-> ceiling_with_gf(gf, ts[i], i, TRUE)]

(***************************************************************************)
(* src/src/lib.rs : calculate_deco_stops                                   *)
(***************************************************************************)

\* line 139: the largest number of passes of the loop of one stop
MAX_STOP_LENGTH == 10000

\* the calls: <<compartment loads by index, gf_low>>; the surface array needs
\* no stop, the fast compartments clear their stops, and the slowest compartment
\* at 1.3268798 bar holds a 3 m stop for 10,000 one-second steps
DecoCalls ==
    { <<[i \in Compartments |-> default_tissue_load], Bar(100)>>,
      <<[i \in Compartments |-> IF i = 0 THEN Bar(300) ELSE default_tissue_load], Bar(30)>>,
      <<[i \in Compartments |-> IF i < 4 THEN Bar(250) ELSE default_tissue_load], Bar(100)>>,
      <<[i \in Compartments |-> IF i = 15 THEN 13268798 ELSE default_tissue_load], Bar(100)>> }

InitDeco ==
    /\ pc = "deco"
    /\ \E call \in DecoCalls :
          /\ tissues = [i \in Compartments |-> [load_n2 |-> call[1][i], load_he |-> 0]]
          /\ dive_parameters = [gf_low |-> call[2], gf_high |-> SCALE,
                                descent_speed |-> 0, ascent_speed |-> 0]
    /\ amb_pressure = SCALE
    /\ SingleIdle /\ NdlIdle /\ SimIdle /\ DecoIdle

\* lines 124-129: the first stop is the max ceiling of the tissues as passed
DecoEntry ==
    /\ pc = "deco"
    /\ current_stop_depth' = max_ceiling_of(dive_parameters, tissues)[1]
    /\ base_tissues_clone' = tissues
    /\ pc' = "deco_stops"
    /\ UNCHANGED <<stop_length, tissues_clone, deco_result>>
    /\ UNCHANGED <<single_vars, ndl_vars, shared_vars, sim_inputs, sim_vars,
                   simulate_out, max_ceiling_out>>

\* lines 131-134: a stop at 3 m or deeper starts from the tissues the stop above left
StopStart ==
    /\ pc = "deco_stops"
    /\ current_stop_depth >= 3
    /\ stop_length' = 0
    /\ tissues_clone' = base_tissues_clone
    /\ pc' = "deco_stop"
    /\ UNCHANGED <<current_stop_depth, base_tissues_clone, deco_result>>
    /\ UNCHANGED <<single_vars, ndl_vars, shared_vars, sim_inputs, sim_vars,
                   simulate_out, max_ceiling_out>>

\* lines 159-164: below 3 m the loop ends and the function returns Ok(())
StopsDone ==
    /\ pc = "deco_stops"
    /\ current_stop_depth < 3
    /\ deco_result' = Some("Ok")
    /\ pc' = "deco_done"
    /\ UNCHANGED <<current_stop_depth, stop_length, tissues_clone, base_tissues_clone>>
    /\ UNCHANGED <<single_vars, ndl_vars, shared_vars, sim_inputs, sim_vars,
                   simulate_out, max_ceiling_out>>

StopCleared_AtCeiling(current_ceiling, stop_depth) == current_ceiling <= stop_depth

\* line 145: if current_ceiling.0 < current_stop_depth
StopCleared(current_ceiling, stop_depth) == current_ceiling < stop_depth

\* lines 137-158: one pass of the loop of a stop
StopPass ==
    /\ pc = "deco_stop"
    /\ stop_length' = stop_length + 1
    /\ IF stop_length + 1 > MAX_STOP_LENGTH
       THEN /\ deco_result' = Some("InvalidSolution")
            /\ pc' = "deco_done"
            /\ UNCHANGED <<current_stop_depth, tissues_clone, base_tissues_clone>>
       ELSE \E current_ceiling \in {max_ceiling_of(dive_parameters, tissues_clone)[1]} :
              IF StopCleared(current_ceiling, current_stop_depth)
              THEN /\ base_tissues_clone' = tissues_clone
                   /\ current_stop_depth' = current_stop_depth - 3
                   /\ pc' = "deco_stops"
                   /\ UNCHANGED <<tissues_clone, deco_result>>
              ELSE /\ tissues_clone' = Advance(tissues_clone,
                                               AmbientAt(current_stop_depth * DM),
                                               ONE_SECOND)
                   /\ UNCHANGED <<pc, current_stop_depth, base_tissues_clone, deco_result>>
    /\ UNCHANGED <<single_vars, ndl_vars, shared_vars, sim_inputs, sim_vars,
                   simulate_out, max_ceiling_out>>

NextDeco == DecoEntry \/ StopStart \/ StopsDone \/ StopPass

SpecDeco == InitDeco /\ [][NextDeco]_vars


(***************************************************************************)
(* Claims.                                                                 *)
(***************************************************************************)

\* C1: with round = true the bisection solver returns exactly the depth the
\* analytical solver returns, for every tissue, compartment and gradient factor.
C1_BinaryEqualsAnalytical ==
    pc = "ceiling_done" => Value(binary_out).rounded = Value(ceiling_out).rounded

\* C2: with round = true the ceiling is never shallower than the exact
\* unrounded ceiling (result_bar - 1) * 10.
C2_NeverShallowerThanExact ==
    (pc = "ceiling_done" /\ HasExactCeiling)
        => Value(ceiling_out).rounded * DM >= ResultMeters(gradient_factor, tissue, tissue_index)

\* C3 as stated: the rounded ceiling is a non-negative multiple of 3, is at
\* least the unrounded ceiling and exceeds it by strictly less than 3.
C3_GapBelowThree ==
    pc = "ceiling_done" =>
        /\ Value(ceiling_out).rounded >= 0
        /\ Value(ceiling_out).rounded % 3 = 0
        /\ Value(ceiling_out).rounded >= Value(ceiling_out).unrounded
        /\ Value(ceiling_out).rounded - Value(ceiling_out).unrounded < 3

\* C3 amended: the rounded ceiling is a non-negative multiple of 3, is at
\* least the unrounded ceiling and exceeds it by at most 3.
C3_GapAtMostThree ==
    pc = "ceiling_done" =>
        /\ Value(ceiling_out).rounded >= 0
        /\ Value(ceiling_out).rounded % 3 = 0
        /\ Value(ceiling_out).rounded >= Value(ceiling_out).unrounded
        /\ Value(ceiling_out).rounded - Value(ceiling_out).unrounded <= 3

C3_Witness ==
    /\ pc = "ceiling_done"
    /\ Value(ceiling_out).unrounded > 0
    /\ Value(ceiling_out).rounded > Value(ceiling_out).unrounded
    /\ tissue.load_he > 0

\* C4: calculate_tissue with 0 elapsed minutes returns the loads it was given.
C4_ZeroMinutesNoOp ==
    (pc = "kinetics" /\ kinetic_steps > 0 /\ minutes_since_last_check = 0)
        => (tissue.load_n2 = previous_tissue.load_n2 /\ tissue.load_he = previous_tissue.load_he)

\* C5: for nitrogen and for helium one update sets
\* new_load = pp + (old_load - pp) * exp(-ln2 * dt / half_life).
C5_ExponentialApproach ==
    (pc = "kinetics" /\ kinetic_steps > 0) =>
        /\ tissue.load_n2 = InspiredN2(amb_pressure)
               + FMul(previous_tissue.load_n2 - InspiredN2(amb_pressure),
                      ExpFactor(N2_HALF_LIFE[tissue_index], minutes_since_last_check))
        /\ tissue.load_he = InspiredHe(amb_pressure)
               + FMul(previous_tissue.load_he - InspiredHe(amb_pressure),
                      ExpFactor(HE_HALF_LIFE[tissue_index], minutes_since_last_check))

\* C6: ndl performs at most 10,000 one-minute iterations; at the cap it aborts
\* instead of looping on.
C6_AtMostTenThousandIterations == ndl_iterations <= 10000

\* C7: for the same starting tissues, ambient pressure and gradient factors
\* binary_ndl returns exactly the minutes ndl returns.
C7_BinaryNdlEqualsNdl ==
    pc = "ndl_done" => Value(binary_out_ndl) = Value(ndl_out)

\* C8: every pass of ndl starts with no ceiling seen so far, advances all 16
\* compartments by one minute at the fixed ambient pressure, and returns the
\* number of earlier passes (0 on the first) exactly when the max ceiling
\* after the advance is non-zero; otherwise it counts one more minute.
C8_Pass ==
    (pc = "ndl") =>
        /\ max_ceiling = 0
        /\ bottom_time = ndl_iterations
        /\ ndl_out = None
        /\ tissues' = [i \in Compartments |->
                          calculate_tissue(tissues[i], i, amb_pressure, ONE_MINUTE)]
        /\ amb_pressure' = amb_pressure
        /\ IF max_ceiling_of(dive_parameters, tissues')[1] # 0
           THEN pc' # "ndl" /\ ndl_out' = Some(ndl_iterations)
           ELSE pc' = "ndl" /\ ndl_out' = None /\ bottom_time' = bottom_time + 1

C9_Pass ==
    /\ (pc = "sim") =>
          /\ iteration_count' = iteration_count + 1
          /\ (iteration_count + 1 >= MAX_ITERATIONS) =>
                (pc' = "sim_cap" /\ outputs' = outputs /\ tissues' = tissues)
    /\ (pc = "sim_surface") =>
          /\ surface_time < surface_time_needed
          /\ surface_time' = surface_time + internal_step
          /\ iteration_count' = iteration_count
    /\ pc \in {"sim", "sim_surface"}

C9_Terminates ==
    /\ [](iteration_count <= MAX_ITERATIONS)
    /\ []((pc = "sim") => iteration_count < MAX_ITERATIONS)
    /\ []((pc = "sim_cap") <=> (iteration_count = MAX_ITERATIONS))
    /\ [][C9_Pass]_vars

C9_Witness ==
    /\ pc = "sim_cap"
    /\ iteration_count = MAX_ITERATIONS
    /\ outputs > 0

\* C10: when simulate_with_ascent with include_ascent ends by surfacing, the
\* diver is at depth 0 and max_ceiling of the final tissues is 0.
C10_NoObligationAtSurface ==
    (pc \in {"sim_surfaced", "sim_at_surface"}) =>
        /\ depth = 0
        /\ max_ceiling_of(dive_parameters, tissues)[1] = 0

\* C11: simulate applies only the descent and the bottom phase: the tissues it
\* leaves are the tissues simulate_with_ascent(..., include_ascent = false)
\* leaves for the same arguments.
C11_SimulateEqualsWithoutAscent ==
    (pc \in Returned /\ simulate_out # None) => tissues = Value(simulate_out)

\* C12: for a fixed tissue and compartment ceiling_with_gf is monotone
\* non-increasing in the gradient factor: every larger gradient factor gives a
\* ceiling that is not deeper, rounded and unrounded.
C12_MonotoneInGradientFactor ==
    pc = "ceiling_done" =>
        \A larger \in GradientFactors :
            gradient_factor <= larger =>
                /\ Value(ceiling_out).rounded
                      >= ceiling_with_gf(larger, tissue, tissue_index, TRUE)
                /\ Value(ceiling_out).unrounded
                      >= ceiling_with_gf(larger, tissue, tissue_index, FALSE)

C12_Witness ==
    /\ pc = "ceiling_done"
    /\ gradient_factor = Bar(30)
    /\ tissue.load_he > 0
    /\ Value(ceiling_out).unrounded > ceiling_with_gf(Bar(50), tissue, tissue_index, FALSE)
    /\ ceiling_with_gf(Bar(50), tissue, tissue_index, TRUE)
          > ceiling_with_gf(Bar(100), tissue, tissue_index, TRUE)
    /\ ceiling_with_gf(Bar(100), tissue, tissue_index, TRUE) > 0

\* C13: max_ceiling and max_ceiling_with_gf return the largest rounded ceiling
\* of the 16 compartments together with the lowest compartment index that
\* attains it, and <<0, 0>> when every ceiling is 0.
C13_LargestCeilingLowestIndex ==
    pc = "max_ceiling_done" =>
        \E cs \in {Ceilings(gradient_factor, tissues)} :
        \E out \in {Value(max_ceiling_out)} :
            /\ \A i \in Compartments : cs[i] <= out[1]
            /\ out[2] \in Compartments
            /\ cs[out[2]] = out[1]
            /\ \A i \in Compartments : i < out[2] => cs[i] < out[1]
            /\ (\A i \in Compartments : cs[i] = 0) => out = <<0, 0>>

C13_Witness ==
    /\ pc = "max_ceiling_done"
    /\ Value(max_ceiling_out)[1] > 0
    /\ Value(max_ceiling_out)[2] > 0
    /\ \E i \in Compartments :
          /\ i > Value(max_ceiling_out)[2]
          /\ ceiling_with_gf(gradient_factor, tissues[i], i, TRUE) = Value(max_ceiling_out)[1]

\* C14: a tissue whose total inert gas load is <= 0, or a denominator of the
\* ceiling formula below the epsilon, gives 0 from ceiling and from
\* binary_ceiling, rounded and unrounded, and "not oversaturated" from the
\* bisection predicate at every depth.
C14_DegenerateInputsGiveZero ==
    (/\ pc = "ceiling_done"
     /\ \/ tissue.load_n2 + tissue.load_he <= 0
        \/ NearZero(Denominator(gradient_factor, WeightedB(tissue, tissue_index))))
        => /\ Value(ceiling_out) = [rounded |-> 0, unrounded |-> 0]
           /\ Value(binary_out) = [rounded |-> 0, unrounded |-> 0]
           /\ \A d \in ProbeDepths :
                 ~is_oversaturated_at_depth(gradient_factor, tissue, tissue_index, d)

C14_Witness ==
    /\ pc = "ceiling_done"
    /\ tissue.load_n2 + tissue.load_he > 0
    /\ tissue.load_he > 0
    /\ NearZero(Denominator(gradient_factor, WeightedB(tissue, tissue_index)))
    /\ Value(ceiling_out).rounded = 0
    /\ Value(binary_out).rounded = 0

\* C15: calculate_deco_stops always terminates: the stop depth starts at the
\* max ceiling, stays a non-negative multiple of 3 and only falls, by 3 when a
\* stop is left; each pass of a stop counts one more and either finds the max
\* ceiling shallower than the stop and leaves it or steps the tissues by one
\* second at the stop's pressure; Err(InvalidSolution) is returned exactly when
\* 10,000 passes of one stop have not found it clear, that is when it had not
\* cleared after 9,999 one-second steps, and Ok(()) once the depth is below 3 m.
C15_Pass ==
    /\ (pc = "deco") =>
          /\ current_stop_depth' = max_ceiling_of(dive_parameters, tissues)[1]
          /\ pc' = "deco_stops"
    /\ (pc = "deco_stops") =>
          IF current_stop_depth >= 3
          THEN pc' = "deco_stop" /\ stop_length' = 0 /\ deco_result' = None
          ELSE pc' = "deco_done" /\ deco_result' = Some("Ok")
    /\ (pc = "deco_stop") =>
          LET clear == max_ceiling_of(dive_parameters, tissues_clone)[1] < current_stop_depth
          IN  /\ stop_length' = stop_length + 1
              /\ (stop_length >= MAX_STOP_LENGTH) =>
                    (pc' = "deco_done" /\ deco_result' = Some("InvalidSolution"))
              /\ (stop_length < MAX_STOP_LENGTH /\ clear) =>
                    /\ pc' = "deco_stops" /\ deco_result' = None
                    /\ current_stop_depth' = current_stop_depth - 3
                    /\ base_tissues_clone' = tissues_clone
              /\ (stop_length < MAX_STOP_LENGTH /\ ~clear) =>
                    /\ pc' = "deco_stop" /\ deco_result' = None
                    /\ current_stop_depth' = current_stop_depth
                    /\ tissues_clone' = Advance(tissues_clone,
                                                AmbientAt(current_stop_depth * DM),
                                                ONE_SECOND)
    /\ pc \in {"deco", "deco_stops", "deco_stop"}

C15_Terminates ==
    /\ [](current_stop_depth >= 0 /\ current_stop_depth % 3 = 0)
    /\ [](stop_length <= MAX_STOP_LENGTH + 1)
    /\ []((deco_result = Some("InvalidSolution")) <=> (stop_length = MAX_STOP_LENGTH + 1))
    /\ []((deco_result = Some("Ok")) => (current_stop_depth = 0))
    /\ []((pc = "deco_done") <=> (deco_result # None))
    /\ [][C15_Pass]_vars

\* a stop that is clear after its 10,000th one-second step, answered with Err
C15_Witness ==
    /\ deco_result = Some("InvalidSolution")
    /\ stop_length = MAX_STOP_LENGTH + 1
    /\ current_stop_depth = 3
    /\ max_ceiling_of(dive_parameters, tissues_clone)[1] < current_stop_depth

\* C15 as stated: Err(InvalidSolution) is returned only when the stop has not
\* cleared within its 10,000 one-second steps.
C15_ErrOnlyWhenNotCleared ==
    (deco_result = Some("InvalidSolution")) =>
        max_ceiling_of(dive_parameters, tissues_clone)[1] >= current_stop_depth

\* C16: simulate_with_ascent passes through its phases only in the order
\* Descending -> Bottom -> Ascending -> terminated: the call starts descending
\* at depth 0, exactly one of descending, bottom and ascending holds at any
\* time, at_deco_stop holds only while ascending, a pass either keeps the phase
\* or moves it to the next one, and nothing changes after the return.
Phase == IF descending THEN 0 ELSE IF bottom THEN 1 ELSE 2

C16_Pass ==
    /\ pc \in {"sim", "sim_surface"}
    /\ Phase' \in {Phase, Phase + 1}
    /\ (at_deco_stop' # at_deco_stop) => (ascending /\ ascending')
    /\ (pc = "sim_surface") => (ascending /\ pc' \in {"sim_surface", "sim_surfaced"})

C16_PhaseOrder ==
    /\ []((iteration_count = 0) =>
             (descending /\ depth = 0 /\ ~at_deco_stop /\ pc = "sim"))
    /\ [](\/ (descending /\ ~bottom /\ ~ascending)
          \/ (~descending /\ bottom /\ ~ascending)
          \/ (~descending /\ ~bottom /\ ascending))
    /\ [](at_deco_stop => ascending)
    /\ []((pc \in {"sim_surface", "sim_surfaced", "sim_at_surface", "sim_no_ascent"})
             => ascending)
    /\ [][C16_Pass]_vars

\* a dive that went through every phase, with a deco stop, and surfaced
C16_Witness ==
    /\ pc = "sim_surfaced"
    /\ ascending /\ ~at_deco_stop
    /\ first_stop_depth # None
    /\ current_deco_depth > 0
    /\ depth = 0

\* C17: in a pass of the ascent outside a deco stop, whenever the max ceiling
\* at the current interpolated gradient factor is positive and the diver is
\* deeper than it, the pass enters a deco stop at max(3, ceiling rounded up to
\* a multiple of 3) metres, and a stop is entered in no other case; the stop
\* depth is a positive multiple of 3 and not shallower than that ceiling.
C17_Pass ==
    (pc = "sim" /\ iteration_count + 1 < MAX_ITERATIONS
       /\ ascending /\ include_ascent /\ ~at_deco_stop) =>
    LET low == max_ceiling_with_gf(dive_parameters.gf_low, tissues)[1]
        first_stop == IF first_stop_depth = None /\ low > 0 THEN Some(low)
                      ELSE first_stop_depth
        current_ceiling == max_ceiling_with_gf(current_gf(first_stop), tissues)[1]
        rounded_up == ((current_ceiling + 2) \div 3) * 3
    IN  IF current_ceiling > 0 /\ depth > current_ceiling * DM
        THEN /\ at_deco_stop'
             /\ current_deco_depth' = (IF rounded_up > 3 THEN rounded_up ELSE 3) * DM
             /\ current_deco_depth' >= current_ceiling * DM
        ELSE ~at_deco_stop' /\ current_deco_depth' = current_deco_depth

C17_StopEntry ==
    /\ [](at_deco_stop =>
             (current_deco_depth >= 3 * DM /\ current_deco_depth % (3 * DM) = 0))
    /\ [][C17_Pass]_vars

\* a diver below a positive ceiling who has just been put at a deco stop
C17_Witness ==
    /\ pc = "sim" /\ ascending
    /\ at_deco_stop
    /\ deco_stop_time = 0
    /\ depth > current_deco_depth
    /\ current_deco_depth >= 6 * DM

\* C18: a pass at a deco stop puts the diver at the stop depth and adds the
\* step to the stop timer; while the ceiling re-evaluated after the step, at
\* the interpolated gradient factor of the pass, is not at least 0.5 m
\* shallower than the stop depth and the timer is below 20 minutes, the diver
\* stays at the stop; a stop is completed (left with nothing carried) exactly
\* at a step where the timer is >= 60 s and that clearance holds, the
\* 20-minute exit apart.
C18_Pass ==
    (pc = "sim" /\ iteration_count + 1 < MAX_ITERATIONS
       /\ ascending /\ include_ascent /\ at_deco_stop) =>
    LET low == max_ceiling_with_gf(dive_parameters.gf_low, tissues)[1]
        first_stop == IF first_stop_depth = None /\ low > 0 THEN Some(low)
                      ELSE first_stop_depth
        new_ceiling == max_ceiling_with_gf(current_gf(first_stop), tissues')[1]
        clear == new_ceiling * DM + DM \div 2 <= current_deco_depth
        timer == deco_stop_time + internal_step
        carried == accumulated_short_stop_time' # accumulated_short_stop_time
    IN  /\ depth' = current_deco_depth
        /\ current_deco_depth' = current_deco_depth
        /\ tissues' = Advance(tissues, AmbientAt(current_deco_depth), Minutes(internal_step))
        /\ (~clear /\ timer < 1200 * TS) => (at_deco_stop' /\ deco_stop_time' = timer)
        /\ (timer >= 60 * TS /\ clear) =>
              (~at_deco_stop' /\ deco_stop_time' = 0 /\ ~carried)
        /\ (~at_deco_stop' /\ ~carried) =>
              ((timer >= 60 * TS /\ clear) \/ timer >= 1200 * TS)

C18_HoldsStop == [][C18_Pass]_vars

\* a stop held past its first minute because the ceiling has not cleared
C18_Witness ==
    /\ pc = "sim" /\ at_deco_stop
    /\ depth = current_deco_depth
    /\ deco_stop_time >= 60 * TS
    /\ deco_stop_time < 100 * TS
    /\ dive_parameters.gf_low < dive_parameters.gf_high

\* C19: when a pass at a deco stop finds the stop cleared with the timer below
\* 60 s, the stop is left in that pass and the timer is added to
\* accumulated_short_stop_time; the pass that enters the next stop starts its
\* timer at the accumulated value and resets the accumulator to 0; no other
\* pass changes the accumulator, the accumulator is 0 during a stop and the
\* timer is 0 outside one, so the carried time is in exactly one of the two.
C19_Pass ==
    (pc = "sim" /\ iteration_count + 1 < MAX_ITERATIONS) =>
    IF at_deco_stop
    THEN LET low == max_ceiling_with_gf(dive_parameters.gf_low, tissues)[1]
             first_stop == IF first_stop_depth = None /\ low > 0 THEN Some(low)
                           ELSE first_stop_depth
             new_ceiling == max_ceiling_with_gf(current_gf(first_stop), tissues')[1]
             clear == new_ceiling = 0 \/ new_ceiling * DM + DM \div 2 < current_deco_depth
             timer == deco_stop_time + internal_step
         IN  IF clear /\ timer < 60 * TS
             THEN /\ ~at_deco_stop' /\ deco_stop_time' = 0
                  /\ accumulated_short_stop_time' = accumulated_short_stop_time + timer
             ELSE accumulated_short_stop_time' = accumulated_short_stop_time
    ELSE IF at_deco_stop'
         THEN /\ deco_stop_time' = accumulated_short_stop_time
              /\ accumulated_short_stop_time' = 0
         ELSE /\ deco_stop_time' = deco_stop_time
              /\ accumulated_short_stop_time' = accumulated_short_stop_time

C19_ShortStopCarried ==
    /\ [](at_deco_stop => accumulated_short_stop_time = 0)
    /\ [](~at_deco_stop => deco_stop_time = 0)
    /\ [][C19_Pass]_vars

\* a stop just entered whose timer starts at the time carried from a short stop
C19_Witness ==
    /\ pc = "sim" /\ at_deco_stop
    /\ depth > current_deco_depth
    /\ deco_stop_time > 0
    /\ accumulated_short_stop_time = 0

\* C20: no deco stop exceeds 20 minutes: once the stop timer has reached
\* 1200 s and the simulator has left the stop with the ceiling still not clear
\* of the stop depth, the ascent continues: the next pass takes the diver
\* shallower than the stop depth.
C20_AscentContinues ==
    [][ (pc = "sim" /\ iteration_count + 1 < MAX_ITERATIONS
           /\ ascending /\ include_ascent /\ ~at_deco_stop
           /\ current_deco_depth > 0 /\ depth = current_deco_depth
           /\ ~Cleared(max_ceiling_with_gf(current_gf(first_stop_depth), tissues)[1],
                       current_deco_depth))
        => depth' < depth ]_vars

\* C21: the first-stop reference is latched in the first pass of the ascent in
\* which the max ceiling at gradient factor 1.0 is positive, is set to that
\* ceiling, and never changes afterwards.
C21_Pass ==
    /\ (first_stop_depth # None) => (first_stop_depth' = first_stop_depth)
    /\ (pc = "sim" /\ iteration_count + 1 < MAX_ITERATIONS
          /\ ~descending /\ ~bottom /\ ascending /\ include_ascent
          /\ first_stop_depth = None) =>
          LET gf_free == max_ceiling_with_gf(SCALE, tissues)[1]
          IN  first_stop_depth' = IF gf_free > 0 THEN Some(gf_free) ELSE None

C21_LatchedAtGfFreeCeiling == [][C21_Pass]_vars

\* the first stop a pass of the ascent works with (latched in the pass if need be)
FirstStopOfPass ==
    LET low == max_ceiling_with_gf(dive_parameters.gf_low, tissues)[1]
    IN  IF first_stop_depth = None /\ low > 0 THEN Some(low) ELSE first_stop_depth

\* fraction of the way from the surface to the first stop, clamped to [0, 1];
\* with amb = depth / 10 + 1 and a surface pressure of 1 bar this is
\* (ambient_pressure - surface_pressure) / (first_stop_pressure - surface_pressure)
FractionOfPass == Min(SCALE, Max(0, (depth * 10) \div Value(FirstStopOfPass)))

\* a pass of the ascent decides with the max ceiling at gradient factor gf:
\* outside a stop it enters one exactly when that ceiling is positive and
\* shallower than the diver, at a stop it stays exactly while the ceiling after
\* the step is not clear of the stop (the 20-minute exit apart)
DecidesAt(gf) ==
    IF at_deco_stop
    THEN LET new_ceiling == max_ceiling_with_gf(gf, tissues')[1]
         IN  (deco_stop_time + internal_step < 1200 * TS) =>
                (at_deco_stop' <=> (new_ceiling * DM + DM \div 2 >= current_deco_depth))
    ELSE LET current_ceiling == max_ceiling_with_gf(gf, tissues)[1]
         IN  at_deco_stop' <=> (current_ceiling > 0 /\ depth > current_ceiling * DM)

InAscentPass ==
    /\ pc = "sim" /\ iteration_count + 1 < MAX_ITERATIONS
    /\ ~descending /\ ~bottom /\ ascending /\ include_ascent

\* C22: during ascent the gradient factor applied to the ceiling is
\* gf_low + (gf_high - gf_low) * (1 - fraction), fraction being the clamped
\* ratio of the depth to the latched first-stop depth, and gf_high while no
\* first stop is latched.
C22_GfFromOneMinusFraction ==
    [][ InAscentPass =>
          DecidesAt(IF FirstStopOfPass = None THEN dive_parameters.gf_high
                    ELSE dive_parameters.gf_low
                         + FMul(dive_parameters.gf_high - dive_parameters.gf_low,
                                SCALE - FractionOfPass)) ]_vars

\* a stop entered below the first stop, where the two formulas differ
C22_Witness ==
    /\ pc = "sim" /\ at_deco_stop
    /\ dive_parameters.gf_low < dive_parameters.gf_high
    /\ first_stop_depth # None
    /\ depth > current_deco_depth
    /\ current_deco_depth < Value(first_stop_depth) * DM

\* C22 as stated: the gradient factor applied is
\* gf_low + (gf_high - gf_low) * fraction.
C22_GfFromFraction ==
    [][ (InAscentPass /\ FirstStopOfPass # None) =>
          DecidesAt(dive_parameters.gf_low
                    + FMul(dive_parameters.gf_high - dive_parameters.gf_low,
                           FractionOfPass)) ]_vars

C24_Pass ==
    (InAscentPass /\ ~at_deco_stop /\ depth > 0 /\ depth < 6 * DM) =>
    LET conservative_gf == FMul(current_gf(FirstStopOfPass), 9000000)
        conservative_ceiling == max_ceiling_with_gf(conservative_gf, tissues)[1]
    IN  /\ (depth' < depth) =>
              (conservative_ceiling = 0 \/ depth > conservative_ceiling * DM)
        /\ at_deco_stop' =>
              (current_deco_depth' = Max(3, conservative_ceiling) * DM)

C24_ConservativeBelowSixMetres == [][C24_Pass]_vars

\* C25: throughout the ascent, the travel to a deco stop included, one pass
\* of at most one second takes the diver shallower by at most
\* ascent_speed * 1 s: the depth never jumps.
C25_NoJumpInDepth ==
    [][ (pc = "sim" /\ ascending)
        => depth - depth' <= MulT(dive_parameters.ascent_speed, internal_step) ]_vars

\* C26: a pass of the ascent never moves the diver deeper; a pass that is
\* neither at a stop nor entering one moves the diver shallower only if the
\* rounded max ceiling at the current gradient factor is 0 and, below 6 m, the
\* ceiling at 0.9 * gf is 0 or shallower than the diver; and whenever
\* 0 < depth <= ceiling the diver keeps the depth in that pass.
C26_Pass ==
    InAscentPass =>
    LET gf == current_gf(FirstStopOfPass)
        current_ceiling == max_ceiling_with_gf(gf, tissues)[1]
        conservative_ceiling == max_ceiling_with_gf(FMul(gf, 9000000), tissues)[1]
    IN  /\ depth' <= depth
        /\ (~at_deco_stop /\ ~at_deco_stop' /\ depth' < depth) =>
              /\ current_ceiling = 0
              /\ (depth < 6 * DM) =>
                    (conservative_ceiling = 0 \/ depth > conservative_ceiling * DM)
        /\ (0 < depth /\ depth <= current_ceiling * DM) => (depth' = depth)

C26_AscendsOnlyWithoutCeiling == [][C26_Pass]_vars

\* a diver held at 3 m by the 0.9 * gf ceiling while the ceiling at gf is 0
C26_Witness ==
    /\ pc = "sim" /\ ascending /\ include_ascent /\ ~at_deco_stop
    /\ depth > 0 /\ depth < 6 * DM
    /\ max_ceiling_with_gf(current_gf(first_stop_depth), tissues)[1] = 0
    /\ max_ceiling_with_gf(FMul(current_gf(first_stop_depth), 9000000), tissues)[1] * DM
          >= depth
    /\ dive_time > 400 * TS

\* C27: a pass of the ascent that brings the diver to depth 0 starts the
\* surface phase with the starting ambient pressure; the surface phase makes
\* exactly 60 passes, each a one-second kinetics step at depth 0 and that
\* pressure, counted in the dive time and the recording interval, and the
\* call returns after the last of them.
C27_Pass ==
    /\ (pc = "sim" /\ ascending /\ depth > 0 /\ depth' <= 0) =>
          /\ pc' = "sim_surface" /\ depth' = 0 /\ surface_time' = 0
          /\ amb_pressure' = starting_ambient_pressure
          /\ tissues' = tissues
    /\ (pc = "sim_surface") =>
          /\ tissues' = Advance(tissues, starting_ambient_pressure, ONE_SECOND)
          /\ depth' = 0 /\ amb_pressure' = starting_ambient_pressure
          /\ dive_time' = dive_time + TS
          /\ surface_time' = surface_time + TS
          /\ outputs' + output_accumulator' \div interval_in_seconds
                = outputs + (output_accumulator + TS) \div interval_in_seconds
          /\ pc' = IF surface_time' = 60 * TS THEN "sim_surfaced" ELSE "sim_surface"

C27_SurfacePhase ==
    /\ []((pc = "sim_surface") =>
             (surface_time % TS = 0 /\ surface_time >= 0 /\ surface_time < 60 * TS))
    /\ []((pc = "sim_surfaced") => (surface_time = 60 * TS /\ depth = 0))
    /\ [][C27_Pass]_vars

\* a dive that has surfaced and finished its minute at the surface
C27_Witness ==
    /\ pc = "sim_surfaced"
    /\ surface_time = 60 * TS
    /\ depth = 0 /\ amb_pressure = starting_ambient_pressure
    /\ dive_time > 60 * TS

(***************************************************************************)
(* src/src/simulate.rs : simulate_with_ascent, the descent and the bottom  *)
(* phase in single precision.  In SpecF32 the scalars the loop computes    *)
(* with f32 arithmetic (depth, dive_time, output_accumulator) and its f32  *)
(* arguments (target_depth, bottom_time_seconds, interval_in_seconds,      *)
(* descent_speed) hold f32 values, every operation rounded as IEEE-754     *)
(* rounds it; the tissues and the ambient pressure stay in fixed point.    *)
(* The calls are made with include_ascent = false.                         *)
(***************************************************************************)

\* f32 values are held as integers: the IEEE-754 bit pattern of |x|, negated
\* when x < 0; the order of the integers is the order of the values
RECURSIVE RoundPack(_, _)
\* the f32 nearest to s * 2^(e - 153) (ties to even), s > 0 or 0
RoundPack(s, e) ==
    IF s = 0 \/ e <= 0 THEN 0
    ELSE IF s >= 2^27
         THEN RoundPack((s \div 2) + (IF s % 2 = 1 /\ (s \div 2) % 2 = 0 THEN 1 ELSE 0), e + 1)
    ELSE IF s < 2^26 THEN RoundPack(s * 2, e - 1)
    ELSE LET q == s \div 8
             r == s % 8
             up == IF r > 4 \/ (r = 4 /\ q % 2 = 1) THEN 1 ELSE 0
         IN  (e - 1) * 2^23 + q + up

\* the 24-bit significand of a normal f32 b > 0
F32Man(b) == 2^23 + (b % 2^23)

\* a + b
F32Add(a, b) ==
    LET ma == IF a < 0 THEN -a ELSE a
        mb == IF b < 0 THEN -b ELSE b
        big == IF ma >= mb THEN a ELSE b
        small == IF ma >= mb THEN b ELSE a
        mbig == IF ma >= mb THEN ma ELSE mb
        msmall == IF ma >= mb THEN mb ELSE ma
        d == IF (mbig \div 2^23) - (msmall \div 2^23) > 27 THEN 27 ELSE (mbig \div 2^23) - (msmall \div 2^23)
        t == F32Man(msmall) * 8
        q == t \div 2^d
        aligned == q + (IF t % 2^d # 0 /\ q % 2 = 0 THEN 1 ELSE 0)
        same == (big < 0) = (small < 0)
        s == IF same THEN F32Man(mbig) * 8 + aligned ELSE F32Man(mbig) * 8 - aligned
        m == RoundPack(s, (mbig \div 2^23))
    IN  IF msmall = 0 THEN big
        ELSE IF big < 0 THEN -m ELSE m

\* a * b
F32Mul(a, b) ==
    LET ma == IF a < 0 THEN -a ELSE a
        mb == IF b < 0 THEN -b ELSE b
        a1 == F32Man(ma) \div 2^12
        a0 == F32Man(ma) % 2^12
        b1 == F32Man(mb) \div 2^12
        b0 == F32Man(mb) % 2^12
        mid == a1 * b0 + a0 * b1
        t == a0 * b0 + (mid % 2^12) * 2^12
        lo == t % 2^24
        hi == a1 * b1 + mid \div 2^12 + t \div 2^24
        s == IF hi >= 2^23
             THEN hi * 8 + (lo \div 2^22) * 2 + (IF lo % 2^22 # 0 THEN 1 ELSE 0)
             ELSE hi * 16 + (lo \div 2^21) * 2 + (IF lo % 2^21 # 0 THEN 1 ELSE 0)
        e == IF hi >= 2^23 THEN (ma \div 2^23) + (mb \div 2^23) - 126 ELSE (ma \div 2^23) + (mb \div 2^23) - 127
        m == RoundPack(s, e)
    IN  IF ma = 0 \/ mb = 0 THEN 0
        ELSE IF (a < 0) = (b < 0) THEN m ELSE -m

RECURSIVE LongDiv(_, _, _, _)
\* n more bits of the quotient q with remainder r of a division by d
LongDiv(q, r, d, n) ==
    IF n = 0 THEN <<q, r>> ELSE LongDiv(2 * q + (2 * r) \div d, (2 * r) % d, d, n - 1)

\* a / b, b # 0
F32Div(a, b) ==
    LET ma == IF a < 0 THEN -a ELSE a
        mb == IF b < 0 THEN -b ELSE b
        ge == F32Man(ma) >= F32Man(mb)
        qr == LongDiv(F32Man(ma) \div F32Man(mb), F32Man(ma) % F32Man(mb), F32Man(mb),
                      IF ge THEN 26 ELSE 27)
        s == qr[1] + (IF qr[2] # 0 /\ qr[1] % 2 = 0 THEN 1 ELSE 0)
        e == (ma \div 2^23) - (mb \div 2^23) + (IF ge THEN 127 ELSE 126)
        m == RoundPack(s, e)
    IN  IF ma = 0 THEN 0
        ELSE IF (a < 0) = (b < 0) THEN m ELSE -m

\* the f32 of a whole number 0 <= n < 2^24
F32Int(n) == RoundPack(n * 8, 150)

\* an f32 x >= 0 as the fixed-point number x * c * 2^n, rounded;
\* metres: DM = 15625 * 2^6, seconds: TS = 625 * 2^4
ToFixed(x, c, n) ==
    LET v == (F32Man(x) \div 2^8) * c
        sh == (x \div 2^23) - 142 + n
    IN  IF x = 0 \/ sh < -30 THEN 0
        ELSE IF sh >= 0 THEN v * 2^sh
        ELSE (v + 2^(-sh - 1)) \div 2^(-sh)

InitF32 ==
    /\ pc = "sim"
    \* the calls: <<target_depth, descent_speed, bottom_time_seconds>>
    /\ \E dive \in
          { <<F32Int(50), F32Div(F32Int(33), F32Int(100)), F32Int(180)>>,
            <<F32Int(50), F32Div(F32Int(33), F32Int(100)), F32Int(0)>>,
            <<F32Int(10), F32Div(F32Int(33), F32Int(100)), F32Int(60)>>,
            <<F32Div(F32Int(4), F32Int(10)), F32Div(F32Int(75), F32Int(100)), F32Int(0)>> } :
          /\ target_depth = dive[1]
          /\ dive_parameters = [Parameters(SCALE, SCALE) EXCEPT !.descent_speed = dive[2]]
          /\ bottom_time_seconds = dive[3]
    /\ include_ascent = FALSE
    /\ tissues = SurfaceTissues
    /\ starting_ambient_pressure = SCALE
    /\ amb_pressure = starting_ambient_pressure
    /\ interval_in_seconds = F32Int(1)
    /\ depth = 0 /\ dive_time = 0 /\ descending = TRUE /\ bottom = FALSE
    /\ ascending = FALSE /\ at_deco_stop = FALSE /\ first_stop_depth = None
    /\ current_deco_depth = 0 /\ deco_stop_time = 0 /\ accumulated_short_stop_time = 0
    /\ output_accumulator = 0 /\ iteration_count = 0 /\ surface_time = 0
    /\ outputs = 0
    /\ simulate_out = None
    /\ SingleIdle /\ NdlIdle /\ DecoIdle

\* a timed move to depth d: tissues, clocks and the output record
MoveF32(d, step) ==
    /\ depth' = d
    /\ amb_pressure' = AmbientAt(ToFixed(d, 15625, 6))
    /\ tissues' = Advance(tissues, AmbientAt(ToFixed(d, 15625, 6)),
                          Minutes(ToFixed(step, 625, 4)))
    /\ dive_time' = F32Add(dive_time, step)
    /\ \E acc \in {F32Add(output_accumulator, step)} :
          IF acc >= interval_in_seconds
          THEN /\ outputs' = outputs + 1
               /\ output_accumulator' = F32Add(acc, -interval_in_seconds)
          ELSE /\ outputs' = outputs
               /\ output_accumulator' = acc

\* lines 108-135
DescendF32 ==
    /\ Running
    /\ descending
    /\ \E step \in {Min(F32Int(1), F32Div(F32Add(target_depth, -depth),
                                          dive_parameters.descent_speed))} :
       \E d \in {F32Add(depth, F32Mul(dive_parameters.descent_speed, step))} :
          /\ MoveF32(d, step)
          /\ IF d >= target_depth
             THEN descending' = FALSE /\ bottom' = TRUE
             ELSE UNCHANGED <<descending, bottom>>
    /\ pc' = pc
    /\ UNCHANGED <<ascending, at_deco_stop, first_stop_depth, current_deco_depth,
                   deco_stop_time, accumulated_short_stop_time, surface_time>>
    /\ UNCHANGED <<dive_parameters, sim_inputs, single_vars, ndl_vars>>
    /\ UNCHANGED <<simulate_out, max_ceiling_out, deco_vars>>

\* lines 138-139
remaining_bottom_time_f32 ==
    F32Add(bottom_time_seconds,
           -F32Add(dive_time, -F32Div(target_depth, dive_parameters.descent_speed)))

\* lines 141-147
BottomEndF32 ==
    /\ Running
    /\ ~descending /\ bottom
    /\ remaining_bottom_time_f32 <= 0
    /\ bottom' = FALSE /\ ascending' = TRUE
    /\ pc' = pc
    /\ UNCHANGED <<depth, dive_time, descending, at_deco_stop, first_stop_depth,
                   current_deco_depth, deco_stop_time, accumulated_short_stop_time,
                   output_accumulator, surface_time, outputs>>
    /\ UNCHANGED <<shared_vars, sim_inputs, single_vars, ndl_vars>>
    /\ UNCHANGED <<simulate_out, max_ceiling_out, deco_vars>>

\* lines 149-163
BottomStepF32 ==
    /\ Running
    /\ ~descending /\ bottom
    /\ \E remaining \in {remaining_bottom_time_f32} :
          /\ remaining > 0
          /\ MoveF32(target_depth, Min(F32Int(1), remaining))
    /\ pc' = pc
    /\ UNCHANGED <<descending, bottom, ascending, at_deco_stop, first_stop_depth,
                   current_deco_depth, deco_stop_time, accumulated_short_stop_time,
                   surface_time>>
    /\ UNCHANGED <<dive_parameters, sim_inputs, single_vars, ndl_vars>>
    /\ UNCHANGED <<simulate_out, max_ceiling_out, deco_vars>>

NextF32 ==
    \/ CapReached
    \/ DescendF32
    \/ BottomEndF32
    \/ BottomStepF32
    \/ NoAscentEnd

SpecF32 == InitF32 /\ [][NextF32]_vars

\* C28: in every state of a simulation the depth lies between the surface and
\* the target depth: the last descent step is shortened to the time left to
\* the target, so the descent never passes it (f32 values are compared by
\* their order).
C28_DepthWithinTarget ==
    (pc = "sim") => (0 <= depth /\ depth <= target_depth)

\* a pass of the loop in the bottom phase: a step at the target depth that
\* uses up bottom time, taken only when there is bottom time, or the end of
\* the phase with nothing else changed
C29_Pass ==
    (pc = "sim" /\ pc' = "sim" /\ ~descending /\ bottom) =>
       \/ /\ bottom' /\ ~ascending'
          /\ bottom_time_seconds > 0
          /\ depth' = target_depth
          /\ dive_time' > dive_time
       \/ /\ ~bottom' /\ ascending'
          /\ depth' = depth /\ dive_time' = dive_time /\ tissues' = tissues

\* C29: the bottom phase applies the kinetics at the target depth until
\* bottom_time_seconds have passed, with no step at all when that time is 0,
\* and then hands over to the ascent; a call with include_ascent = false
\* returns there, with the depth equal to the target depth.
C29_BottomThenReturn ==
    /\ [][C29_Pass]_vars
    /\ []((pc = "sim_no_ascent") => (depth = target_depth /\ ~bottom /\ ascending))

\* C30: after every step the number of samples recorded is the whole number
\* of recording intervals in the simulated time, and the time carried to the
\* next sample is non-negative and shorter than one interval.
C30_SamplesPerInterval ==
    (pc \in {"sim", "sim_surface"} \cup Returned) =>
       /\ outputs = dive_time \div interval_in_seconds
       /\ output_accumulator >= 0
       /\ output_accumulator < interval_in_seconds

====
